---- MODULE Spec2Model ----
(***************************************************************************)
(* UniFi dynamic inventory (unifi_inventory.py): one process run of        *)
(* UnifiInventory.run -- authenticate, build_inventory (skeleton, device   *)
(* fetch, device loop, client fetch, client loop), print.                  *)
(*                                                                         *)
(* Representation of Python values.  A dict is a function whose DOMAIN is  *)
(* the set of keys it holds, so an absent key is a key outside DOMAIN and  *)
(* a key holding null is a key mapped to None.  None is a token different  *)
(* from every string of the input domains, and so are True and False.      *)
(* Lists are sequences.  The adoption state is an integer; every other     *)
(* scalar (names, addresses, versions, timestamps) is a string.            *)
(***************************************************************************)
EXTENDS Integers, Sequences, FiniteSets, TLC

VARIABLES
    pc,               \* position of run(): authenticate .. done / exited
    auth_outcome,     \* what the login attempt met
    device_response,  \* what the device query met
    client_response,  \* what the client query met
    devices,          \* list returned by get_devices()
    clients,          \* list returned by get_clients()
    di,               \* index of the next device of the device loop
    ci,               \* index of the next client of the client loop
    inventory,        \* the local `inventory` of build_inventory
    requests,         \* HTTP requests issued so far, in order
    stdout,           \* documents printed on standard output
    stderr,           \* diagnostics written on standard error
    exit_code         \* process exit status, -1 while the process runs

vars == <<pc, auth_outcome, device_response, client_response, devices, clients,
          di, ci, inventory, requests, stdout, stderr, exit_code>>

-----------------------------------------------------------------------------
(* Bounds of the input lists.                                              *)
MaxDevices == 2
MaxClients == 2

-----------------------------------------------------------------------------
(* Python primitives used by the code.                                     *)
None == "None"
True == "True"
False == "False"

\* truth value of an operand: None, False and the empty string are falsy
Truthy(v) == v \notin {None, False, ""}

\* `a or b`
Or(a, b) == IF Truthy(a) THEN a ELSE b

\* dict.get(k)
Get(d, k) == IF k \in DOMAIN d THEN d[k] ELSE None

\* dict.get(k, default)
GetDefault(d, k, default) == IF k \in DOMAIN d THEN d[k] ELSE default

\* an assignment that drops a null key
SetItemSkipNone(m, k, v) ==
    IF k = None THEN m
    ELSE [j \in DOMAIN m \cup {k} |-> IF j = k THEN v ELSE m[j]]

\* mapping[k] = v
SetItem(m, k, v) == [j \in DOMAIN m \cup {k} |-> IF j = k THEN v ELSE m[j]]

SeqsUpTo(S, n) == UNION {[1..k -> S] : k \in 0..n}

-----------------------------------------------------------------------------
(* Inputs: what the controller can answer.                                 *)
DeviceRecords ==
    { [name |-> "host1", mac |-> "aa:bb", type |-> "usw", ip |-> "10.0.0.1",
       model |-> "US8", version |-> "6.5.59", state |-> 0],
      [name |-> "host1", mac |-> "aa:bb", type |-> "uap", state |-> 1],
      [name |-> "host1", type |-> "other"],
      [name |-> "sw2", mac |-> "aa:bb", model |-> "US8"],
      [mac |-> "aa:bb", type |-> "ugw"],
      [name |-> "", mac |-> "cc:dd", type |-> "usw"],
      [name |-> None, type |-> "uap"],
      [ip |-> "10.0.0.2"],
      [name |-> "", type |-> None, state |-> 1] }

ClientRecords ==
    { [hostname |-> "host1", mac |-> "cc:dd", is_wired |-> True,
       ip |-> "10.0.0.9", last_seen |-> "1700000000"],
      [hostname |-> "host1", mac |-> "ee:ff", is_wired |-> False],
      [hostname |-> None, mac |-> "cc:dd", is_wired |-> False],
      [mac |-> "aa:bb"],
      [is_wired |-> True, ip |-> "10.0.0.9"],
      [hostname |-> "", mac |-> "cc:dd", is_wired |-> True] }

DeviceLists == SeqsUpTo(DeviceRecords, MaxDevices)
ClientLists == SeqsUpTo(ClientRecords, MaxClients)

HTTP_OK == 200
StatusCodes == {HTTP_OK, 401}

NoResponse == [kind |-> "none"]

\* login: the password does not decode, the request raises, or a response
AuthOutcomes ==
    {[kind |-> "decode_error"], [kind |-> "exception"]}
        \cup {[kind |-> "response", status |-> s] : s \in StatusCodes}

\* a query: the request or the JSON decoding raises, or a response arrives;
\* a 200 body may lack the data key, an error body may carry one
FetchOutcomes(lists) ==
    {[kind |-> "exception"]}
        \cup {[kind |-> "response", status |-> HTTP_OK, body |-> [data |-> l]] :
                l \in lists}
        \cup {[kind |-> "response", status |-> HTTP_OK, body |-> [meta |-> "ok"]]}
        \cup {[kind |-> "response", status |-> 401, body |-> [meta |-> "error"]]}
        \cup {[kind |-> "response", status |-> 401, body |-> [data |-> l]] :
                l \in {x \in lists : Len(x) = 1}}

LOGIN == "POST /api/login"
STAT_DEVICE == "GET /api/s/site/stat/device"
STAT_STA == "GET /api/s/site/stat/sta"

-----------------------------------------------------------------------------
(* authenticate / get_devices / get_clients                                *)

\* authenticate() trusting any response, whatever its status
authenticateAnyStatus(o) == o.kind = "response"

\* return value of authenticate()
authenticate(o) == o.kind = "response" /\ o.status = HTTP_OK

\* what authenticate() writes on stderr
authenticateStderr(o) ==
    IF o.kind \in {"decode_error", "exception"}
    THEN <<"Authentication failed: exception">> ELSE <<>>

\* the requests authenticate() sends: none when the password fails to decode
authenticateRequests(o) == IF o.kind = "decode_error" THEN <<>> ELSE <<LOGIN>>

\* a fetch reading the body whatever the status
fetchIgnoringStatus(r) ==
    IF r.kind = "exception" THEN <<>> ELSE GetDefault(r.body, "data", <<>>)

\* return value of get_devices()
get_devices(r) ==
    IF r.kind = "exception" THEN <<>>
    ELSE IF r.status = HTTP_OK THEN GetDefault(r.body, "data", <<>>)
    ELSE <<>>

get_devicesStderr(r) ==
    IF r.kind = "exception" THEN <<"Failed to fetch devices: exception">> ELSE <<>>

\* return value of get_clients()
get_clients(r) ==
    IF r.kind = "exception" THEN <<>>
    ELSE IF r.status = HTTP_OK THEN GetDefault(r.body, "data", <<>>)
    ELSE <<>>

get_clientsStderr(r) ==
    IF r.kind = "exception" THEN <<"Failed to fetch clients: exception">> ELSE <<>>

-----------------------------------------------------------------------------
(* build_inventory                                                         *)

HostGroups == {"switches", "aps", "gateways", "wired_clients", "wireless_clients"}
DeviceGroups == {"switches", "aps", "gateways"}
ClientGroups == {"wired_clients", "wireless_clients"}

NoInventory == <<>>

\* a skeleton that forgot one group
SkeletonNoGateways ==
    [_meta |-> [hostvars |-> <<>>],
     all |-> [children |-> <<"unifi_devices", "unifi_clients">>],
     unifi_devices |-> [children |-> <<"switches", "aps", "gateways">>],
     switches |-> [hosts |-> <<>>],
     aps |-> [hosts |-> <<>>],
     unifi_clients |-> [children |-> <<"wired_clients", "wireless_clients">>],
     wired_clients |-> [hosts |-> <<>>],
     wireless_clients |-> [hosts |-> <<>>]]

Skeleton ==
    [_meta |-> [hostvars |-> <<>>],
     all |-> [children |-> <<"unifi_devices", "unifi_clients">>],
     unifi_devices |-> [children |-> <<"switches", "aps", "gateways">>],
     switches |-> [hosts |-> <<>>],
     aps |-> [hosts |-> <<>>],
     gateways |-> [hosts |-> <<>>],
     unifi_clients |-> [children |-> <<"wired_clients", "wireless_clients">>],
     wired_clients |-> [hosts |-> <<>>],
     wireless_clients |-> [hosts |-> <<>>]]

\* an identifier that prefers the MAC
DeviceHostnameMacFirst(device) == Or(Get(device, "mac"), Get(device, "name"))

\* hostname = device.get('name') or device.get('mac')
DeviceHostname(device) == Or(Get(device, "name"), Get(device, "mac"))

\* device_type = device.get('type', 'unknown')
DeviceType(device) == GetDefault(device, "type", "unknown")

\* device variables with 0 as the default of the state
DeviceVarsNoDefault(device) ==
    [mac_address |-> Get(device, "mac"),
     ip_address |-> Get(device, "ip"),
     model |-> Get(device, "model"),
     version |-> Get(device, "version"),
     device_type |-> DeviceType(device),
     adoption_state |-> GetDefault(device, "state", 0),
     unifi_device |-> True]

DeviceVars(device) ==
    [mac_address |-> Get(device, "mac"),
     ip_address |-> Get(device, "ip"),
     model |-> Get(device, "model"),
     version |-> Get(device, "version"),
     device_type |-> DeviceType(device),
     adoption_state |-> GetDefault(device, "state", 1),
     unifi_device |-> True]

\* a categorisation that files everything it does not know under switches
DeviceGroupDefaultSwitches(device_type) ==
    IF device_type = "uap" THEN "aps"
    ELSE IF device_type = "ugw" THEN "gateways"
    ELSE "switches"

\* the sub-group a device type is filed under, "" for none
DeviceGroup(device_type) ==
    IF device_type = "usw" THEN "switches"
    ELSE IF device_type = "uap" THEN "aps"
    ELSE IF device_type = "ugw" THEN "gateways"
    ELSE ""

\* list.append(x), and the slip that inserts at the front
Prepend(hosts, x) == <<x>> \o hosts
ListAppend(hosts, x) == Append(hosts, x)

AppendHost(inv, group, hostname) ==
    IF group = "" THEN inv
    ELSE [inv EXCEPT ![group].hosts = ListAppend(@, hostname)]

\* one iteration of the device loop
ProcessDeviceRecord(inv, device) ==
    LET hostname == DeviceHostname(device)
        written == [inv EXCEPT !._meta.hostvars =
                        SetItem(@, hostname, DeviceVars(device))]
    IN  AppendHost(written, DeviceGroup(DeviceType(device)), hostname)

\* hostname = client.get('hostname') or client.get('mac')
ClientHostname(client) == Or(Get(client, "hostname"), Get(client, "mac"))

\* is_wired = client.get('is_wired', False)
ClientIsWired(client) == GetDefault(client, "is_wired", False)

ClientVars(client) ==
    [mac_address |-> Get(client, "mac"),
     ip_address |-> Get(client, "ip"),
     hostname |-> Get(client, "hostname"),
     is_wired |-> ClientIsWired(client),
     last_seen |-> Get(client, "last_seen"),
     unifi_client |-> True]

\* `if is_wired:`
ClientGroup(is_wired) ==
    IF Truthy(is_wired) THEN "wired_clients" ELSE "wireless_clients"

\* a client write that merges into the entry already there (dict.update)
ClientWriteMerging(hostvars, hostname, entry) ==
    IF hostname \in DOMAIN hostvars
    THEN SetItem(hostvars, hostname,
                 [k \in DOMAIN hostvars[hostname] \cup DOMAIN entry |->
                     IF k \in DOMAIN entry THEN entry[k] ELSE hostvars[hostname][k]])
    ELSE SetItem(hostvars, hostname, entry)

\* inventory['_meta']['hostvars'][hostname] = {...} of the client loop
ClientWrite(hostvars, hostname, entry) == SetItem(hostvars, hostname, entry)

\* one iteration of the client loop
ProcessClientRecord(inv, client) ==
    LET hostname == ClientHostname(client)
        written == [inv EXCEPT !._meta.hostvars =
                        ClientWrite(@, hostname, ClientVars(client))]
    IN  AppendHost(written, ClientGroup(ClientIsWired(client)), hostname)

-----------------------------------------------------------------------------
(* The run.                                                                *)

Init ==
    /\ pc = "authenticate"
    /\ auth_outcome = NoResponse
    /\ device_response = NoResponse
    /\ client_response = NoResponse
    /\ devices = <<>>
    /\ clients = <<>>
    /\ di = 1
    /\ ci = 1
    /\ inventory = NoInventory
    /\ requests = <<>>
    /\ stdout = <<>>
    /\ stderr = <<>>
    /\ exit_code = -1

\* run(): `if not self.authenticate(): sys.exit("Authentication failed")`
Authenticate ==
    /\ pc = "authenticate"
    /\ \E o \in AuthOutcomes :
        /\ auth_outcome' = o
        /\ requests' = requests \o authenticateRequests(o)
        /\ IF authenticate(o)
           THEN /\ pc' = "build_inventory"
                /\ stderr' = stderr \o authenticateStderr(o)
                /\ exit_code' = exit_code
           ELSE /\ pc' = "exited"
                /\ stderr' = stderr \o authenticateStderr(o)
                                    \o <<"Authentication failed">>
                /\ exit_code' = 1
    /\ UNCHANGED <<device_response, client_response, devices, clients, di, ci,
                   inventory, stdout>>

\* build_inventory(): the skeleton
BuildSkeleton ==
    /\ pc = "build_inventory"
    /\ inventory' = Skeleton
    /\ pc' = "get_devices"
    /\ UNCHANGED <<auth_outcome, device_response, client_response, devices,
                   clients, di, ci, requests, stdout, stderr, exit_code>>

\* a device query that is sent again when it fails
GetDevicesRetrying ==
    /\ pc = "get_devices"
    /\ \E r \in FetchOutcomes(DeviceLists) :
        /\ device_response' = r
        /\ devices' = get_devices(r)
        /\ stderr' = stderr \o get_devicesStderr(r)
        /\ pc' = IF r.kind = "response" /\ r.status = HTTP_OK
                 THEN "process_devices" ELSE "get_devices"
    /\ requests' = Append(requests, STAT_DEVICE)
    /\ di' = 1
    /\ UNCHANGED <<auth_outcome, client_response, clients, ci, inventory,
                   stdout, exit_code>>

\* `for device in self.get_devices()`: the call
GetDevices ==
    /\ pc = "get_devices"
    /\ \E r \in FetchOutcomes(DeviceLists) :
        /\ device_response' = r
        /\ devices' = get_devices(r)
        /\ stderr' = stderr \o get_devicesStderr(r)
    /\ requests' = Append(requests, STAT_DEVICE)
    /\ di' = 1
    /\ pc' = "process_devices"
    /\ UNCHANGED <<auth_outcome, client_response, clients, ci, inventory,
                   stdout, exit_code>>

\* the device loop, one record
ProcessDevice ==
    /\ pc = "process_devices"
    /\ di <= Len(devices)
    /\ inventory' = ProcessDeviceRecord(inventory, devices[di])
    /\ di' = di + 1
    /\ UNCHANGED <<pc, auth_outcome, device_response, client_response, devices,
                   clients, ci, requests, stdout, stderr, exit_code>>

\* `for client in self.get_clients()`: the call, once the device loop is over
GetClients ==
    /\ pc = "process_devices"
    /\ di > Len(devices)
    /\ \E r \in FetchOutcomes(ClientLists) :
        /\ client_response' = r
        /\ clients' = get_clients(r)
        /\ stderr' = stderr \o get_clientsStderr(r)
    /\ requests' = Append(requests, STAT_STA)
    /\ ci' = 1
    /\ pc' = "process_clients"
    /\ UNCHANGED <<auth_outcome, device_response, devices, di, inventory,
                   stdout, exit_code>>

\* the client loop, one record
ProcessClient ==
    /\ pc = "process_clients"
    /\ ci <= Len(clients)
    /\ inventory' = ProcessClientRecord(inventory, clients[ci])
    /\ ci' = ci + 1
    /\ UNCHANGED <<pc, auth_outcome, device_response, client_response, devices,
                   clients, di, requests, stdout, stderr, exit_code>>

\* `print(json.dumps(self.build_inventory(), indent=2))`, then the script ends
Emit ==
    /\ pc = "process_clients"
    /\ ci > Len(clients)
    /\ stdout' = Append(stdout, "inventory")
    /\ exit_code' = 0
    /\ pc' = "done"
    /\ UNCHANGED <<auth_outcome, device_response, client_response, devices,
                   clients, di, ci, inventory, requests, stderr>>

Next ==
    \/ Authenticate
    \/ BuildSkeleton
    \/ GetDevices
    \/ ProcessDevice
    \/ GetClients
    \/ ProcessClient
    \/ Emit

Spec == Init /\ [][Next]_vars

-----------------------------------------------------------------------------
(* Vocabulary of the properties.                                           *)

Building == pc \in {"get_devices", "process_devices", "process_clients", "done"}
hostvars == inventory._meta.hostvars
Hosts(g) == inventory[g].hosts
Range(seq) == {seq[i] : i \in DOMAIN seq}
Count(seq, x) == Cardinality({i \in DOMAIN seq : seq[i] = x})
DeviceEntries(h) == Count(Hosts("switches"), h) + Count(Hosts("aps"), h)
                        + Count(Hosts("gateways"), h)
ClientEntries(h) == Count(Hosts("wired_clients"), h)
                        + Count(Hosts("wireless_clients"), h)
Recognised(device) == DeviceType(device) \in {"usw", "uap", "ugw"}
AuthSucceeded == auth_outcome.kind = "response" /\ auth_outcome.status = 200
AuthFailed == auth_outcome.kind /= "none" /\ ~AuthSucceeded
FetchFailed(r) ==
    r.kind = "exception" \/ (r.kind = "response" /\ r.status /= 200)
FetchSucceeded(r) == r.kind = "response" /\ r.status = 200
ResponseData(r) == IF "data" \in DOMAIN r.body THEN r.body.data ELSE <<>>

-----------------------------------------------------------------------------
\* C1: at every point of build_inventory, and in the returned document, every
\* host identifier in the hosts list of switches, aps, gateways,
\* wired_clients or wireless_clients is a key of _meta.hostvars.
C1_HostsHaveHostvars ==
    Building =>
        \A g \in HostGroups : \A i \in DOMAIN Hosts(g) :
            Hosts(g)[i] \in DOMAIN hostvars

\* the returned document lists hosts of both kinds, a null identifier included
C1_Witness ==
    /\ pc = "done"
    /\ None \in Range(Hosts("aps"))
    /\ Hosts("switches") /= <<>>
    /\ Hosts("wireless_clients") /= <<>>

-----------------------------------------------------------------------------
\* C2: when authentication fails (status other than 200, or an exception
\* while decoding the password or sending the request) the process has
\* exited with a non-zero status and a diagnostic, nothing was printed on
\* standard output and neither fetch was issued.
C2_AuthFailureExits ==
    AuthFailed =>
        /\ pc = "exited"
        /\ exit_code > 0
        /\ stderr /= <<>>
        /\ stderr[Len(stderr)] = "Authentication failed"
        /\ stdout = <<>>
        /\ STAT_DEVICE \notin Range(requests)
        /\ STAT_STA \notin Range(requests)
        /\ device_response = NoResponse
        /\ client_response = NoResponse

\* the login was answered with 401 and the process is gone
C2_Witness ==
    /\ auth_outcome.kind = "response"
    /\ auth_outcome.status = 401
    /\ pc = "exited"

-----------------------------------------------------------------------------
\* C3: after a successful authentication a failing fetch (non-200 or
\* exception) yields an empty list, the run never aborts nor stops before
\* the emission, and the emitted document holds exactly the data of the
\* category that succeeded: no device host when the device fetch failed and
\* every client listed, and symmetrically.
C3_FetchFailureDegrades ==
    /\ AuthSucceeded => pc /= "exited" /\ exit_code \in {-1, 0}
    /\ AuthSucceeded /\ pc /= "done" => ENABLED Next
    /\ FetchFailed(device_response) => devices = <<>>
    /\ FetchFailed(client_response) => clients = <<>>
    /\ pc = "done" =>
        /\ stdout = <<"inventory">>
        /\ exit_code = 0
        /\ FetchFailed(device_response) =>
            /\ \A g \in DeviceGroups : Hosts(g) = <<>>
            /\ FetchSucceeded(client_response) =>
                LET data == ResponseData(client_response) IN
                /\ Len(Hosts("wired_clients")) + Len(Hosts("wireless_clients"))
                       = Len(data)
                /\ DOMAIN hostvars = {ClientHostname(data[i]) : i \in DOMAIN data}
                /\ \A i \in DOMAIN data :
                       ClientHostname(data[i])
                           \in Range(Hosts("wired_clients"))
                               \cup Range(Hosts("wireless_clients"))
        /\ FetchFailed(client_response) =>
            /\ \A g \in ClientGroups : Hosts(g) = <<>>
            /\ FetchSucceeded(device_response) =>
                LET data == ResponseData(device_response) IN
                /\ DOMAIN hostvars = {DeviceHostname(data[i]) : i \in DOMAIN data}
                /\ \A i \in DOMAIN data :
                       /\ hostvars[DeviceHostname(data[i])].unifi_device = True
                       /\ Recognised(data[i]) =>
                              DeviceEntries(DeviceHostname(data[i])) >= 1

\* a device query refused with a body carrying data, two clients listed
C3_Witness ==
    /\ pc = "done"
    /\ device_response.kind = "response"
    /\ device_response.status = 401
    /\ "data" \in DOMAIN device_response.body
    /\ FetchSucceeded(client_response)
    /\ Len(clients) = 2
    /\ stdout = <<"inventory">>

-----------------------------------------------------------------------------
\* C4 as stated: in the returned document, the identifier of every device
\* record whose type is none of usw, uap, ugw is a key of _meta.hostvars and
\* occurs in none of switches, aps, gateways.
C4_AsStated ==
    pc = "done" =>
        \A i \in DOMAIN devices :
            ~Recognised(devices[i]) =>
                /\ DeviceHostname(devices[i]) \in DOMAIN hostvars
                /\ \A g \in DeviceGroups :
                       DeviceHostname(devices[i]) \notin Range(Hosts(g))

\* C4 amended: the identifier of every processed device record whose type is
\* none of usw, uap, ugw is a key of _meta.hostvars, and occurs in none of
\* switches, aps, gateways unless a processed device record of type usw, uap
\* or ugw has the same identifier.
C4_UnrecognisedTypeNotGrouped ==
    Building =>
        \A i \in 1..(di - 1) :
            ~Recognised(devices[i]) =>
                /\ DeviceHostname(devices[i]) \in DOMAIN hostvars
                /\ (\A j \in 1..(di - 1) :
                        Recognised(devices[j]) =>
                            DeviceHostname(devices[j]) /= DeviceHostname(devices[i]))
                   => \A g \in DeviceGroups :
                          DeviceHostname(devices[i]) \notin Range(Hosts(g))

\* a record without type before a switch of another name
C4_Witness ==
    /\ pc = "done"
    /\ Len(devices) = 2
    /\ "type" \notin DOMAIN devices[1]
    /\ DeviceHostname(devices[1]) = "sw2"
    /\ DeviceType(devices[2]) = "usw"
    /\ Hosts("switches") = <<"host1">>
    /\ "sw2" \in DOMAIN hostvars

-----------------------------------------------------------------------------
\* C5 as stated: when a device record and a client record share an
\* identifier, the final hostvars entry equals that client's variable set
\* and the identifier occurs in exactly one device sub-group list and
\* exactly one client sub-group list.
C5_AsStated ==
    pc = "done" =>
        \A i \in DOMAIN devices : \A j \in DOMAIN clients :
            DeviceHostname(devices[i]) = ClientHostname(clients[j]) =>
                /\ hostvars[ClientHostname(clients[j])] = ClientVars(clients[j])
                /\ DeviceEntries(ClientHostname(clients[j])) = 1
                /\ ClientEntries(ClientHostname(clients[j])) = 1

LastClientWith(h) ==
    CHOOSE j \in DOMAIN clients :
        /\ ClientHostname(clients[j]) = h
        /\ \A k \in DOMAIN clients : ClientHostname(clients[k]) = h => k <= j

\* C5 amended: when a device record and a client record share an identifier,
\* the final hostvars entry equals exactly the variable set of the last
\* client record with that identifier, with no device key left; the
\* identifier occurs in the device sub-group lists once per device record
\* that bears it with a type among usw, uap, ugw, and in the client
\* sub-group lists once per client record that bears it.
C5_CollisionClientWins ==
    pc = "done" =>
        \A i \in DOMAIN devices : \A j \in DOMAIN clients :
            DeviceHostname(devices[i]) = ClientHostname(clients[j]) =>
                LET h == ClientHostname(clients[j]) IN
                /\ hostvars[h] = ClientVars(clients[LastClientWith(h)])
                /\ DOMAIN hostvars[h] =
                       {"mac_address", "ip_address", "hostname", "is_wired",
                        "last_seen", "unifi_client"}
                /\ DeviceEntries(h) =
                       Cardinality({k \in DOMAIN devices :
                           DeviceHostname(devices[k]) = h /\ Recognised(devices[k])})
                /\ ClientEntries(h) =
                       Cardinality({k \in DOMAIN clients :
                           ClientHostname(clients[k]) = h})

\* the scenario of the specification: one switch and one client named host1
C5_Witness ==
    /\ pc = "done"
    /\ Len(devices) = 1
    /\ Len(clients) = 1
    /\ DeviceHostname(devices[1]) = "host1"
    /\ ClientHostname(clients[1]) = "host1"
    /\ Hosts("switches") = <<"host1">>
    /\ Hosts("wired_clients") = <<"host1">>
    /\ hostvars["host1"].unifi_client = True

-----------------------------------------------------------------------------
\* the identifier C6 states: the primary field when the record holds it
\* (with a value), otherwise the MAC, null when it holds neither
StatedIdentifier(record, primary) ==
    IF primary \in DOMAIN record /\ record[primary] /= None THEN record[primary]
    ELSE IF "mac" \in DOMAIN record THEN record.mac
    ELSE None

\* the same with an empty primary field counted as missing
NonEmptyIdentifier(record, primary) ==
    IF primary \in DOMAIN record /\ record[primary] \notin {None, ""}
    THEN record[primary]
    ELSE IF "mac" \in DOMAIN record THEN record.mac
    ELSE None

\* C6 as stated: every processed record is filed under its name (hostname
\* for a client) when present, otherwise its MAC, otherwise null: that
\* identifier is a key of _meta.hostvars and is in the matching hosts list.
C6_AsStated ==
    Building =>
        /\ \A i \in 1..(di - 1) :
            /\ StatedIdentifier(devices[i], "name") \in DOMAIN hostvars
            /\ Recognised(devices[i]) =>
                   StatedIdentifier(devices[i], "name")
                       \in Range(Hosts(DeviceGroup(DeviceType(devices[i]))))
        /\ \A i \in 1..(ci - 1) :
            /\ StatedIdentifier(clients[i], "hostname") \in DOMAIN hostvars
            /\ StatedIdentifier(clients[i], "hostname")
                   \in Range(Hosts(ClientGroup(ClientIsWired(clients[i]))))

\* C6 amended: the identifier of a device is its name when the name is
\* present and not empty, otherwise its MAC; that of a client its hostname
\* when present and not empty, otherwise its MAC; null when the record has
\* neither.  Whatever it is, null included, it is a key of _meta.hostvars
\* and is in the matching hosts list, and the loop goes on to the records
\* that follow: both loops have run to the end when the document is emitted.
C6_IdentifierFallback ==
    /\ Building =>
        /\ \A i \in 1..(di - 1) :
            /\ DeviceHostname(devices[i]) = NonEmptyIdentifier(devices[i], "name")
            /\ NonEmptyIdentifier(devices[i], "name") \in DOMAIN hostvars
            /\ Recognised(devices[i]) =>
                   NonEmptyIdentifier(devices[i], "name")
                       \in Range(Hosts(DeviceGroup(DeviceType(devices[i]))))
        /\ \A i \in 1..(ci - 1) :
            /\ ClientHostname(clients[i]) = NonEmptyIdentifier(clients[i], "hostname")
            /\ NonEmptyIdentifier(clients[i], "hostname") \in DOMAIN hostvars
            /\ NonEmptyIdentifier(clients[i], "hostname")
                   \in Range(Hosts(ClientGroup(ClientIsWired(clients[i]))))
    /\ pc = "process_devices" /\ di <= Len(devices) => ENABLED ProcessDevice
    /\ pc = "process_clients" /\ ci <= Len(clients) => ENABLED ProcessClient
    /\ pc = "done" => di = Len(devices) + 1 /\ ci = Len(clients) + 1

\* a device and a client with neither name nor MAC, each followed by a
\* record that is filed under its own identifier
C6_Witness ==
    /\ pc = "done"
    /\ Len(devices) = 2
    /\ Len(clients) = 2
    /\ DOMAIN devices[1] \cap {"name", "mac"} = {}
    /\ DeviceHostname(devices[2]) = "aa:bb"
    /\ DOMAIN clients[1] \cap {"hostname", "mac"} = {}
    /\ ClientHostname(clients[2]) = "ee:ff" \/ ClientHostname(clients[2]) = "host1"
    /\ None \in DOMAIN hostvars
    /\ Hosts("wired_clients")[1] = None
    /\ Hosts("gateways") = <<"aa:bb">>

-----------------------------------------------------------------------------
\* C7: the document always has exactly the nine top-level keys, the three
\* children lists are those of the skeleton whatever the input, and from an
\* empty device list and an empty client list every hosts list and
\* _meta.hostvars are empty.
C7_SkeletonPreserved ==
    Building =>
        /\ DOMAIN inventory =
               {"_meta", "all", "unifi_devices", "switches", "aps", "gateways",
                "unifi_clients", "wired_clients", "wireless_clients"}
        /\ inventory.all = [children |-> <<"unifi_devices", "unifi_clients">>]
        /\ inventory.unifi_devices = [children |-> <<"switches", "aps", "gateways">>]
        /\ inventory.unifi_clients =
               [children |-> <<"wired_clients", "wireless_clients">>]
        /\ DOMAIN inventory._meta = {"hostvars"}
        /\ \A g \in HostGroups : DOMAIN inventory[g] = {"hosts"}
        /\ (pc = "done" /\ devices = <<>> /\ clients = <<>>) =>
               /\ \A g \in HostGroups : Hosts(g) = <<>>
               /\ DOMAIN hostvars = {}

\* both queries answered 200 with an empty data list
C7_Witness ==
    /\ pc = "done"
    /\ FetchSucceeded(device_response)
    /\ FetchSucceeded(client_response)
    /\ "data" \in DOMAIN device_response.body
    /\ "data" \in DOMAIN client_response.body
    /\ devices = <<>>
    /\ clients = <<>>

-----------------------------------------------------------------------------
\* the entries C8 states: every absent field null, but adoption_state 1
StatedDeviceVars(device) ==
    [mac_address |-> Get(device, "mac"),
     ip_address |-> Get(device, "ip"),
     model |-> Get(device, "model"),
     version |-> Get(device, "version"),
     device_type |-> Get(device, "type"),
     adoption_state |-> IF "state" \in DOMAIN device THEN device.state ELSE 1,
     unifi_device |-> True]

StatedClientVars(client) ==
    [mac_address |-> Get(client, "mac"),
     ip_address |-> Get(client, "ip"),
     hostname |-> Get(client, "hostname"),
     is_wired |-> Get(client, "is_wired"),
     last_seen |-> Get(client, "last_seen"),
     unifi_client |-> True]

\* the record the loop has just processed
LastDevice == devices[di - 1]
LastClient == clients[ci - 1]

\* C8 as stated: the entry just written for a device has the seven device
\* keys, every absent field null except adoption_state (1), unifi_device
\* true; the entry just written for a client has the six client keys, absent
\* fields null, unifi_client true.
C8_AsStated ==
    /\ (pc = "process_devices" /\ di > 1) =>
           hostvars[DeviceHostname(LastDevice)] = StatedDeviceVars(LastDevice)
    /\ (pc \in {"process_clients", "done"} /\ ci > 1) =>
           hostvars[ClientHostname(LastClient)] = StatedClientVars(LastClient)

\* C8 amended: processing a record never aborts; the entry just written for
\* a device has exactly the keys mac_address, ip_address, model, version,
\* device_type, adoption_state, unifi_device, where an absent field is null
\* except device_type ('unknown' without type) and adoption_state (1 without
\* state), and unifi_device is true; the entry just written for a client has
\* exactly mac_address, ip_address, hostname, is_wired, last_seen,
\* unifi_client, where an absent field is null except is_wired (false
\* without is_wired), and unifi_client is true.
C8_HostvarsEntries ==
    /\ (pc = "process_devices" /\ di <= Len(devices)) => ENABLED ProcessDevice
    /\ (pc = "process_clients" /\ ci <= Len(clients)) => ENABLED ProcessClient
    /\ (pc = "process_devices" /\ di > 1) =>
           LET e == hostvars[DeviceHostname(LastDevice)]
               absent(k) == k \notin DOMAIN LastDevice
           IN  /\ DOMAIN e = {"mac_address", "ip_address", "model", "version",
                              "device_type", "adoption_state", "unifi_device"}
               /\ e.mac_address = (IF absent("mac") THEN None ELSE LastDevice.mac)
               /\ e.ip_address = (IF absent("ip") THEN None ELSE LastDevice.ip)
               /\ e.model = (IF absent("model") THEN None ELSE LastDevice.model)
               /\ e.version = (IF absent("version") THEN None ELSE LastDevice.version)
               /\ e.device_type =
                      (IF absent("type") THEN "unknown" ELSE LastDevice.type)
               /\ e.adoption_state = (IF absent("state") THEN 1 ELSE LastDevice.state)
               /\ e.unifi_device = True
    /\ (pc \in {"process_clients", "done"} /\ ci > 1) =>
           LET e == hostvars[ClientHostname(LastClient)]
               absent(k) == k \notin DOMAIN LastClient
           IN  /\ DOMAIN e = {"mac_address", "ip_address", "hostname", "is_wired",
                              "last_seen", "unifi_client"}
               /\ e.mac_address = (IF absent("mac") THEN None ELSE LastClient.mac)
               /\ e.ip_address = (IF absent("ip") THEN None ELSE LastClient.ip)
               /\ e.hostname =
                      (IF absent("hostname") THEN None ELSE LastClient.hostname)
               /\ e.is_wired =
                      (IF absent("is_wired") THEN False ELSE LastClient.is_wired)
               /\ e.last_seen =
                      (IF absent("last_seen") THEN None ELSE LastClient.last_seen)
               /\ e.unifi_client = True

\* a device holding nothing but an address has just been processed
C8_Witness ==
    /\ pc = "process_devices"
    /\ di = 3
    /\ DOMAIN LastDevice = {"ip"}
    /\ hostvars[None].adoption_state = 1
    /\ hostvars[None].ip_address = "10.0.0.2"

-----------------------------------------------------------------------------
\* identifiers, in order, of the records of a list whose type is exactly t,
\* and of the client records whose wired flag is (is not) true
RECURSIVE DeviceIdsOfType(_, _)
DeviceIdsOfType(list, t) ==
    IF list = <<>> THEN <<>>
    ELSE IF "type" \in DOMAIN Head(list) /\ Head(list).type = t
         THEN <<DeviceHostname(Head(list))>> \o DeviceIdsOfType(Tail(list), t)
         ELSE DeviceIdsOfType(Tail(list), t)

RECURSIVE ClientIdsWired(_, _)
ClientIdsWired(list, wired) ==
    IF list = <<>> THEN <<>>
    ELSE LET isWired == "is_wired" \in DOMAIN Head(list) /\ Head(list).is_wired = True
         IN  IF isWired = wired
             THEN <<ClientHostname(Head(list))>> \o ClientIdsWired(Tail(list), wired)
             ELSE ClientIdsWired(Tail(list), wired)

\* C9: the hosts list of switches (aps, gateways) is the sequence of the
\* identifiers of the processed devices of type usw (uap, ugw), in input
\* order and with repetitions; wired_clients lists the processed clients
\* whose is_wired is true and wireless_clients those whose is_wired is false
\* or absent, so that the two lengths add up to the number of clients.
C9_OrderedNoDedup ==
    Building =>
        LET ds == SubSeq(devices, 1, di - 1)
            cs == SubSeq(clients, 1, ci - 1)
        IN  /\ Hosts("switches") = DeviceIdsOfType(ds, "usw")
            /\ Hosts("aps") = DeviceIdsOfType(ds, "uap")
            /\ Hosts("gateways") = DeviceIdsOfType(ds, "ugw")
            /\ Hosts("wired_clients") = ClientIdsWired(cs, TRUE)
            /\ Hosts("wireless_clients") = ClientIdsWired(cs, FALSE)
            /\ Len(Hosts("wired_clients")) + Len(Hosts("wireless_clients"))
                   = Len(cs)

\* two switches of different names in input order, a repeated wired client
C9_Witness ==
    /\ pc = "done"
    /\ Hosts("switches") = <<"cc:dd", "host1">>
    /\ Hosts("wired_clients") = <<"host1", "host1">>
    /\ Hosts("wireless_clients") = <<>>

-----------------------------------------------------------------------------
IsPrefix(s, t) == Len(s) <= Len(t) /\ \A i \in DOMAIN s : s[i] = t[i]

\* C10: the requests are issued in the order login, device query, client
\* query, each at most once; no query before the login succeeded; the client
\* query only once the device query has returned and its records are
\* processed; the document is printed at most once, after both queries have
\* returned, and nothing happens after it.
C10_SequentialRun ==
    /\ IsPrefix(requests, <<LOGIN, STAT_DEVICE, STAT_STA>>)
    /\ (STAT_DEVICE \in Range(requests) \/ STAT_STA \in Range(requests))
           => AuthSucceeded
    /\ (device_response /= NoResponse) = (STAT_DEVICE \in Range(requests))
    /\ (client_response /= NoResponse) = (STAT_STA \in Range(requests))
    /\ STAT_STA \in Range(requests) =>
           device_response /= NoResponse /\ di = Len(devices) + 1
    /\ Len(stdout) <= 1
    /\ stdout /= <<>> =>
           /\ requests = <<LOGIN, STAT_DEVICE, STAT_STA>>
           /\ device_response /= NoResponse
           /\ client_response /= NoResponse
           /\ ci = Len(clients) + 1
           /\ pc = "done"
           /\ ~ENABLED Next

\* a complete run: three requests, one document
C10_Witness ==
    /\ pc = "done"
    /\ requests = <<LOGIN, STAT_DEVICE, STAT_STA>>
    /\ stdout = <<"inventory">>
    /\ Len(devices) = 1
    /\ Len(clients) = 1

====
